---- MODULE Spec2Model ----
(***************************************************************************)
(* GeminiLiveService (services/geminiLiveService.ts): the session object   *)
(* of the video-call client.  The model follows one service instance: its  *)
(* fields, the platform objects the fields point at (media stream, audio   *)
(* contexts, buffer sources), the duplex channel's callbacks, and every    *)
(* suspension point (await) of connect, handleMessage and disconnect.      *)
(***************************************************************************)
EXTENDS Integers, Sequences, FiniteSets, TLC

\* ---------------------------------------------------------------- bounds
MaxMsgs == 3          \* inbound messages of a session that plays audio
MaxTextMsgs == 2      \* inbound messages of a session with transcripts
MaxDur == 2           \* longest decoded chunk, in clock units
MaxClock == 1         \* last reading of the output clock that is explored
MaxDisconnects == 2   \* disconnect() calls in one session
MaxFrames == 2        \* frames the capture stage delivers
MaxDate == 1          \* last reading of the wall clock that is explored

\* ------------------------------------------------------------- variables
VARIABLES
  \* fields of GeminiLiveService ("null" or "set" for references)
  stream, inputAudioContext, outputAudioContext, inputSource, processor,
  outputNode, sessionPromise, nextStartTime, sources,
  currentInputTranscription, currentOutputTranscription,
  \* platform objects behind the fields
  trackState,        \* "none" | "live" | "stopped"   tracks of the stream
  inCtxState,        \* "none" | "running" | "closed" input AudioContext
  outCtxState,       \* "none" | "running" | "closed" output AudioContext
  released,          \* per resource: number of release calls made on it
  currentTime,       \* outputAudioContext.currentTime
  dateNow,           \* Date.now()
  chan,              \* "none" | "connecting" | "open" | "closed"
  chanErrored,       \* the channel has delivered its error callback
  chanOpened,        \* the channel has delivered its open callback
  \* control state of the async methods
  pcConnect,         \* "idle" | "gum" | "done"
  disc,              \* sequence of disconnect() calls: [pc, rej]
  inflight,          \* handleMessage calls suspended in decodeAudioData:
                     \* [id, msg, read, lag]; read is the clock reading the
                     \* call took, lag whether that reading was at or
                     \* behind the cursor
  nMsgs,             \* messages delivered so far (ids are 1..nMsgs)
  \* what the collaborator and the audio hardware observed
  nError, nClose,    \* config.onError / config.onClose calls
  emitted,           \* config.onTranscription items, in order
  started,           \* source.start() calls, in order: [msg, when, at,
                     \* dur, stop, read, lag]; when is the argument of
                     \* start(), at the clock at the call, stop the clock
                     \* at source.stop() or NoStop
  log,               \* every state effect of handleMessage, in order
  \* the capture stage and the microphone
  trackEnabled,      \* enabled flag of the audio tracks of this.stream
  isMuted,           \* App.isMuted: the mute state the user sees
  frames,            \* onaudioprocess callbacks run so far (ids 1..frames)
  capLog,            \* what each callback did, in order: [frame, kind,
                     \* live, muted]
  queued,            \* frames whose send waits on the session promise
  sent,              \* frames passed to session.sendRealtimeInput, in order
  faulty,            \* messages whose audio chunk failed to decode: [id,
                     \* msg, fault, before, after] (cursor before and after)
  endedFired,        \* sources whose 'ended' listener has run
  \* the App that owns the session
  callState,         \* App.callState
  appError,          \* App.error is set
  transcriptions     \* App.transcriptions

svcVars == <<stream, inputAudioContext, outputAudioContext, inputSource,
             processor, outputNode, sessionPromise>>
platVars == <<trackState, inCtxState, outCtxState, released>>
playVars == <<nextStartTime, sources, started>>
textVars == <<currentInputTranscription, currentOutputTranscription, emitted>>
msgVars == <<inflight, nMsgs, log>>
chanVars == <<chan, chanErrored, chanOpened>>
evVars == <<nError, nClose>>
appVars == <<callState, appError, transcriptions>>
capVars == <<trackEnabled, isMuted, frames, capLog, queued, sent>>
vars == <<svcVars, platVars, playVars, textVars, msgVars, chanVars, evVars,
          capVars, currentTime, dateNow, pcConnect, disc, faulty,
          endedFired, appVars>>

\* --------------------------------------------------------------- helpers
MaxSecond(a, b) == b

\* Math.max
Max(a, b) == IF a >= b THEN a ELSE b

Resources == {"processor", "inputSource", "inputCtx", "outputCtx", "tracks"}

Bump(rel, r) == [rel EXCEPT ![r] = @ + 1]

\* ------------------------------------------------------------------ Init
Init ==
  /\ stream = "null" /\ inputAudioContext = "null"
  /\ outputAudioContext = "null" /\ inputSource = "null"
  /\ processor = "null" /\ outputNode = "null" /\ sessionPromise = "null"
  /\ nextStartTime = 0 /\ sources = {}
  /\ currentInputTranscription = <<>> /\ currentOutputTranscription = <<>>
  /\ trackState = "none" /\ inCtxState = "none" /\ outCtxState = "none"
  /\ released = [r \in Resources |-> 0]
  /\ currentTime = 0 /\ dateNow = 0
  /\ chan = "none" /\ chanErrored = FALSE /\ chanOpened = FALSE
  /\ pcConnect = "idle" /\ disc = <<>>
  /\ inflight = {} /\ nMsgs = 0
  /\ nError = 0 /\ nClose = 0
  /\ emitted = <<>> /\ started = <<>> /\ log = <<>>
  /\ trackEnabled = TRUE /\ isMuted = FALSE
  /\ frames = 0 /\ capLog = <<>> /\ queued = <<>> /\ sent = <<>>
  /\ faulty = <<>> /\ endedFired = {}
  /\ callState = "LOBBY" /\ appError = FALSE /\ transcriptions = <<>>

\* ------------------------------------------------------------------- App
\* The App is the collaborator of the session: its closures are the
\* session's callbacks, and it calls connect() from startCall and
\* disconnect() from endCall.
\* startCall: setCallState(CONNECTING) before connect() is called.
StateOnStart == "CONNECTING"

\* startCall after `await service.connect()`: setCallState(ACTIVE).
StateAfterConnect == "ACTIVE"

\* config.onError: setError(...), setCallState(LOBBY).
StateOnError == "LOBBY"

\* config.onClose: setCallState(ENDED).
StateOnClose == "ENDED"

\* endCall: setCallState(LOBBY).
StateOnEnd == "LOBBY"

\* --------------------------------------------------------------- connect
\* startCall up to connect()'s await of getUserMedia.
Connect ==
  /\ pcConnect = "idle"
  /\ pcConnect' = "gum"
  /\ callState' = StateOnStart /\ appError' = FALSE
  /\ UNCHANGED <<svcVars, platVars, playVars, textVars, msgVars, chanVars,
                 evVars, currentTime, dateNow, transcriptions, faulty,
                 endedFired, disc, capVars>>

\* The AudioContext constructors may throw; ai.live.connect is an async
\* function, so it hands back a promise and never throws into the try block.
ConnectOutcomes == {"ok", "inputCtxThrows", "outputCtxThrows"}

\* getUserMedia resolved with a new stream, whose tracks are enabled: the
\* rest of the try block runs without suspending.
\* A constructor that throws lands in the catch block, which only reports
\* the error.  connect() then returns, and startCall, which awaited it,
\* goes on in the same turn of the event loop.
GumResolve(outcome) ==
  /\ pcConnect = "gum"
  /\ pcConnect' = "done"
  /\ stream' = "set" /\ trackState' = "live"
  /\ inputAudioContext' =
       IF outcome = "inputCtxThrows" THEN inputAudioContext ELSE "set"
  /\ inCtxState' = IF outcome = "inputCtxThrows" THEN inCtxState ELSE "running"
  /\ outputAudioContext' =
       IF outcome \in {"inputCtxThrows", "outputCtxThrows"}
       THEN outputAudioContext ELSE "set"
  /\ outCtxState' =
       IF outcome \in {"inputCtxThrows", "outputCtxThrows"}
       THEN outCtxState ELSE "running"
  /\ outputNode' =
       IF outcome \in {"inputCtxThrows", "outputCtxThrows"}
       THEN outputNode ELSE "set"
  /\ sessionPromise' = IF outcome = "ok" THEN "pending" ELSE sessionPromise
  /\ chan' = IF outcome = "ok" THEN "connecting" ELSE chan
  /\ nError' = IF outcome = "ok" THEN nError ELSE nError + 1
  /\ trackEnabled' = TRUE
  /\ appError' = IF outcome = "ok" THEN appError ELSE TRUE
  /\ callState' = StateAfterConnect
  /\ UNCHANGED <<inputSource, processor, released, playVars, textVars,
                 msgVars, chanErrored, chanOpened, nClose, currentTime,
                 dateNow, transcriptions, faulty, endedFired, disc, isMuted,
                 frames, capLog, queued, sent>>

\* getUserMedia rejected: the catch block reports the error, connect()
\* returns and startCall goes on.
GumReject ==
  /\ pcConnect = "gum"
  /\ pcConnect' = "done"
  /\ nError' = nError + 1
  /\ appError' = TRUE
  /\ callState' = StateAfterConnect
  /\ UNCHANGED <<svcVars, platVars, playVars, textVars, msgVars, chanVars,
                 nClose, currentTime, dateNow, transcriptions, faulty,
                 endedFired, disc, capVars>>

\* ------------------------------------------------------ channel callbacks
\* callbacks.onopen = handleOpen: wires the capture stage when the input
\* context and the stream are there.  A socket that reported an error while
\* connecting closes; it does not open.
ChanOpen ==
  /\ chan = "connecting"
  /\ ~chanErrored
  /\ chan' = "open" /\ chanOpened' = TRUE
  /\ IF inputAudioContext # "null" /\ stream # "null"
     THEN inputSource' = "set" /\ processor' = "set"
     ELSE UNCHANGED <<inputSource, processor>>
  /\ UNCHANGED <<stream, inputAudioContext, outputAudioContext, outputNode,
                 sessionPromise, platVars, playVars, textVars, msgVars,
                 chanErrored, evVars, currentTime, dateNow, appVars, faulty,
                 endedFired, pcConnect, disc, capVars>>

\* The promise returned by ai.live.connect settles: with the session once
\* the channel has opened, or with a rejection (before the socket exists,
\* in which case no callback ever fires, or while sending the setup message
\* on the open socket).  A socket that fails before opening leaves the
\* promise pending for good.  The sends that onaudioprocess chained on the
\* promise run when it resolves, in the order they were chained; a rejection
\* drops them.
SessionSettle(outcome) ==
  /\ sessionPromise = "pending"
  /\ outcome = "resolved" => chanOpened
  /\ outcome = "rejected" => (chan = "open" \/ (chan = "connecting" /\ ~chanErrored))
  /\ sessionPromise' = outcome
  /\ chan' = IF outcome = "rejected" /\ chan = "connecting" THEN "none" ELSE chan
  /\ sent' = IF outcome = "resolved" THEN sent \o queued ELSE sent
  /\ queued' = <<>>
  /\ UNCHANGED <<stream, inputAudioContext, outputAudioContext, inputSource,
                 processor, outputNode, platVars, playVars, textVars, msgVars,
                 chanErrored, chanOpened, evVars, currentTime, dateNow,
                 appVars, faulty, endedFired, pcConnect, disc, trackEnabled,
                 isMuted, frames, capLog>>

\* callbacks.onerror
ChanError ==
  /\ chan \in {"connecting", "open"}
  /\ ~chanErrored
  /\ chanErrored' = TRUE
  /\ nError' = nError + 1
  /\ appError' = TRUE
  /\ callState' = StateOnError
  /\ UNCHANGED <<svcVars, platVars, playVars, textVars, msgVars, chan,
                 chanOpened, nClose, currentTime, dateNow, transcriptions,
                 faulty, endedFired, pcConnect, disc, capVars>>

\* callbacks.onclose
ChanClose ==
  /\ chan \in {"connecting", "open"}
  /\ chan' = "closed"
  /\ nClose' = nClose + 1
  /\ callState' = StateOnClose
  /\ UNCHANGED <<svcVars, platVars, playVars, textVars, msgVars, chanErrored,
                 chanOpened, nError, currentTime, dateNow, appError,
                 transcriptions, faulty, endedFired, pcConnect, disc, capVars>>

\* ------------------------------------------------------------ disconnect
\* AudioContext.close(): a context that is closing or closed rejects the
\* call; otherwise the context is marked closed at once and the promise
\* resolves later.
CloseRejects(ctxState) == ctxState = "closed"

\* One run of disconnect() from a resumption point to its next await or to
\* its return.  stage is where the run starts: "start" (the call),
\* "afterIn" / "afterOut" (the awaited close() resolved).
\*   procRel, srcRel     processor / inputSource were disconnected
\*   closeIn, closeOut   inputAudioContext / outputAudioContext .close() ran
\*   stopTracks          the stream's tracks were stopped
DisconnectRun(calls, d, stage) ==
  LET procRel == stage = "start" /\ processor # "null"
      srcRel == stage = "start" /\ inputSource # "null"
      closeIn == stage = "start" /\ inputAudioContext # "null"
      reachOut == stage = "afterIn" \/ (stage = "start" /\ ~closeIn)
      closeOut == reachOut /\ outputAudioContext # "null"
      reachStream == stage = "afterOut" \/ (reachOut /\ ~closeOut)
      stopTracks == reachStream /\ stream # "null"
      awaitSess == reachStream /\ sessionPromise # "null"
      rel1 == IF procRel THEN Bump(released, "processor") ELSE released
      rel2 == IF srcRel THEN Bump(rel1, "inputSource") ELSE rel1
      rel3 == IF closeIn THEN Bump(rel2, "inputCtx") ELSE rel2
      rel4 == IF closeOut THEN Bump(rel3, "outputCtx") ELSE rel3
      rel5 == IF stopTracks THEN Bump(rel4, "tracks") ELSE rel4
      next == IF closeIn
                THEN [calls[d] EXCEPT !.pc = "awaitIn",
                                      !.rej = CloseRejects(inCtxState)]
              ELSE IF closeOut
                THEN [calls[d] EXCEPT !.pc = "awaitOut",
                                      !.rej = CloseRejects(outCtxState)]
              ELSE IF awaitSess
                THEN [calls[d] EXCEPT !.pc = "awaitSess", !.rej = FALSE]
              ELSE [calls[d] EXCEPT !.pc = "done", !.rej = FALSE]
  IN /\ processor' = IF stage = "start" THEN "null" ELSE processor
     /\ inputSource' = IF stage = "start" THEN "null" ELSE inputSource
     /\ inputAudioContext' = IF stage = "afterIn" THEN "null" ELSE inputAudioContext
     /\ outputAudioContext' = IF stage = "afterOut" THEN "null" ELSE outputAudioContext
     /\ stream' = IF reachStream THEN "null" ELSE stream
     /\ inCtxState' = IF closeIn THEN "closed" ELSE inCtxState
     /\ outCtxState' = IF closeOut THEN "closed" ELSE outCtxState
     /\ trackState' = IF stopTracks THEN "stopped" ELSE trackState
     /\ released' = rel5
     /\ disc' = [calls EXCEPT ![d] = next]

\* disconnect() is called: it runs to its first await, or returns.  The
\* call records where connect() and the channel stood when it was made.
DisconnectCall ==
  /\ Len(disc) < MaxDisconnects
  /\ DisconnectRun(Append(disc, [pc |-> "start", rej |-> FALSE,
                                 at |-> pcConnect, chanAt |-> chan]),
                   Len(disc) + 1, "start")
  /\ UNCHANGED <<outputNode, sessionPromise, playVars, textVars, msgVars,
                 chanVars, evVars, currentTime, dateNow, appVars, faulty,
                 endedFired, pcConnect, capVars>>

\* The close() a call awaits has resolved: the call goes on to its next
\* await, or returns.
DisconnectResume(d) ==
  /\ d \in DOMAIN disc
  /\ disc[d].pc \in {"awaitIn", "awaitOut"}
  /\ ~disc[d].rej
  /\ DisconnectRun(disc, d, IF disc[d].pc = "awaitIn" THEN "afterIn" ELSE "afterOut")
  /\ UNCHANGED <<outputNode, sessionPromise, playVars, textVars, msgVars,
                 chanVars, evVars, currentTime, dateNow, appVars, faulty,
                 endedFired, pcConnect, capVars>>

\* The close() a call awaits has rejected: the await throws and the call
\* ends with that error, its remaining statements unexecuted.
DisconnectCloseRejected(d) ==
  /\ d \in DOMAIN disc
  /\ disc[d].pc \in {"awaitIn", "awaitOut"}
  /\ disc[d].rej
  /\ disc' = [disc EXCEPT ![d].pc = "raised", ![d].rej = FALSE]
  /\ UNCHANGED <<svcVars, platVars, playVars, textVars, msgVars, chanVars,
                 evVars, currentTime, dateNow, appVars, faulty, endedFired,
                 pcConnect, capVars>>

\* The session promise a call awaits has settled: the call returns, or ends
\* with the promise's rejection.
DisconnectSessionSettled(d) ==
  /\ d \in DOMAIN disc
  /\ disc[d].pc = "awaitSess"
  /\ sessionPromise \in {"resolved", "rejected"}
  /\ disc' = [disc EXCEPT
       ![d].pc = IF sessionPromise = "resolved" THEN "done" ELSE "raised",
       ![d].rej = FALSE]
  /\ UNCHANGED <<svcVars, platVars, playVars, textVars, msgVars, chanVars,
                 evVars, currentTime, dateNow, appVars, faulty, endedFired,
                 pcConnect, capVars>>

\* App.endCall, offered by the call view (any call state but LOBBY): calls
\* disconnect() without awaiting it when the App holds a service, drops the
\* service, returns to the lobby and empties the transcript list.
EndCall ==
  /\ callState # "LOBBY"
  /\ IF pcConnect # "idle" /\ disc = <<>>
     THEN DisconnectRun(Append(disc, [pc |-> "start", rej |-> FALSE,
                                      at |-> pcConnect, chanAt |-> chan]),
                        Len(disc) + 1, "start")
     ELSE UNCHANGED <<processor, inputSource, inputAudioContext,
                      outputAudioContext, stream, platVars, disc>>
  /\ callState' = StateOnEnd
  /\ transcriptions' = <<>>
  /\ UNCHANGED <<outputNode, sessionPromise, playVars, textVars, msgVars,
                 chanVars, evVars, currentTime, dateNow, appError, faulty,
                 endedFired, pcConnect, capVars>>

\* ------------------------------------------------------ capture and mute
CapturingUnmuted ==
  processor = "set" /\ inCtxState = "running" /\ trackEnabled

\* The script processor fires onaudioprocess while it is wired (handleOpen
\* connected it and disconnect() has not disconnected it) and its context
\* runs.
Capturing == processor = "set" /\ inCtxState = "running"

\* One entry of the capture log: what the callback of frame f did, with the
\* state of the tracks the frame was captured from.
CapEntry(f, kind) ==
  [frame |-> f, kind |-> kind, live |-> trackState = "live",
   muted |-> ~trackEnabled]

HandOffWhenResolved(f) ==
  [log |-> IF sessionPromise = "resolved"
           THEN <<CapEntry(f, "level"), CapEntry(f, "handoff")>>
           ELSE <<CapEntry(f, "level")>>,
   queued |-> queued,
   sent |-> IF sessionPromise = "resolved" THEN Append(sent, f) ELSE sent]

\* The body of onaudioprocess for frame f: config.onAudioData(rms), then
\* the frame is handed to sessionPromise.then(...), which sends it in a
\* later microtask when the promise has resolved, keeps it waiting while
\* the promise is pending, and never sends it when the promise rejected.
HandOff(f) ==
  [log |-> <<CapEntry(f, "level")>> \o
           (IF sessionPromise # "null" THEN <<CapEntry(f, "handoff")>>
            ELSE <<>>),
   queued |-> IF sessionPromise = "pending" THEN Append(queued, f) ELSE queued,
   sent |-> IF sessionPromise = "resolved" THEN Append(sent, f) ELSE sent]

\* processor.onaudioprocess: one captured frame.  The callback has no await;
\* it runs to its end before any other callback.
CaptureFrame ==
  /\ Capturing
  /\ frames' = frames + 1
  /\ capLog' = capLog \o HandOff(frames + 1).log
  /\ queued' = HandOff(frames + 1).queued
  /\ sent' = HandOff(frames + 1).sent
  /\ UNCHANGED <<svcVars, platVars, playVars, textVars, msgVars, chanVars,
                 evVars, currentTime, dateNow, appVars, faulty, endedFired,
                 pcConnect, disc, trackEnabled, isMuted>>

\* track.enabled of the stream's audio tracks after muteMicrophone(muted):
\* the method does nothing while the service has no stream.
EnabledAfterMute(muted) == IF stream # "null" THEN ~muted ELSE trackEnabled

\* muteMicrophone(muted), called by a collaborator of the service.
MuteMicrophone(muted) ==
  /\ trackEnabled' = EnabledAfterMute(muted)
  /\ UNCHANGED <<svcVars, platVars, playVars, textVars, msgVars, chanVars,
                 evVars, currentTime, dateNow, appVars, faulty, endedFired,
                 pcConnect, disc, isMuted, frames, capLog, queued, sent>>

\* liveServiceRef.current of the App: set by startCall before it calls
\* connect(), cleared by endCall right after it calls disconnect().
ServiceRef == pcConnect # "idle" /\ disc = <<>>

\* App.toggleMute with a lobby stream present: flips isMuted and, when the
\* App holds a service, passes the new value to muteMicrophone.
ToggleMute ==
  /\ isMuted' = ~isMuted
  /\ trackEnabled' = IF ServiceRef THEN EnabledAfterMute(~isMuted)
                     ELSE trackEnabled
  /\ UNCHANGED <<svcVars, platVars, playVars, textVars, msgVars, chanVars,
                 evVars, currentTime, dateNow, appVars, faulty, endedFired,
                 pcConnect, disc, frames, capLog, queued, sent>>

\* ---------------------------------------------------------- handleMessage
\* An optional field of a message is <<>> (absent) or <<v>> (present).
Opt(S) == {<<>>} \cup {<<v>> : v \in S}

\* Text is a sequence of characters; a transcription delta is a short text.
Deltas == {<<"a">>, <<" ">>}

\* message.serverContent: audio is the duration the chunk decodes to (0: the
\* message carries no inline audio data).
Messages ==
  [audio : 0..MaxDur, interrupted : BOOLEAN,
   inputTranscription : Opt(Deltas), outputTranscription : Opt(Deltas),
   turnComplete : BOOLEAN]

\* String.prototype.trim
RECURSIVE TrimStart(_)
TrimStart(s) == IF s # <<>> /\ Head(s) = " " THEN TrimStart(Tail(s)) ELSE s

RECURSIVE TrimEnd(_)
TrimEnd(s) ==
  IF s # <<>> /\ s[Len(s)] = " " THEN TrimEnd(SubSeq(s, 1, Len(s) - 1)) ELSE s

Trim(s) == TrimEnd(TrimStart(s))

\* A JavaScript string in a condition: true unless empty.
Truthy(s) == s # <<>>

NoStop == -1

\* One entry of the effect log.
Effect(id, kind, sender, text) ==
  [msg |-> id, kind |-> kind, sender |-> sender, text |-> text]

\* The item handed to config.onTranscription.
Item(sender, text) ==
  [id |-> <<dateNow, sender>>, sender |-> sender, text |-> text,
   timestamp |-> dateNow, isFinal |-> TRUE]

\* source.stop() for every source of the set srcs.
StopAll(srcs, st) ==
  [i \in DOMAIN st |->
     IF st[i].msg \in srcs /\ st[i].stop = NoStop
     THEN [st[i] EXCEPT !.stop = currentTime] ELSE st[i]]

AdvanceCursorAssign(nst, dur) == dur

\* nextStartTime after a chunk of duration dur was started.
AdvanceCursor(nst, dur) == nst + dur

AppendDeltaPrepend(buf, text) == text \o buf

\* pending text after a delta was appended.
AppendDelta(buf, text) == buf \o text

ClearedOnInterruptKeeps(buf) == buf

\* the ai sender's pending text after an interruption.
ClearedOnInterrupt(buf) == <<>>

\* handleMessage after its audio block (steps 2 and 3 of the method):
\* interruption, transcription deltas, turn completion.  It runs without
\* suspending.  srcs1, nst1, started1, log1 are the values the audio block
\* left behind.
AfterAudio(m, id, srcs1, nst1, started1, log1) ==
  LET intr == m.interrupted
      in0 == currentInputTranscription
      out0 == IF intr THEN ClearedOnInterrupt(currentOutputTranscription)
              ELSE currentOutputTranscription
      log2 == IF intr THEN Append(log1, Effect(id, "interrupt", "", <<>>)) ELSE log1
      hasIn == m.inputTranscription # <<>>
      in1 == IF hasIn THEN AppendDelta(in0, m.inputTranscription[1]) ELSE in0
      log3 == IF hasIn
              THEN Append(log2, Effect(id, "delta", "user", m.inputTranscription[1]))
              ELSE log2
      hasOut == m.outputTranscription # <<>>
      out1 == IF hasOut THEN AppendDelta(out0, m.outputTranscription[1]) ELSE out0
      log4 == IF hasOut
              THEN Append(log3, Effect(id, "delta", "ai", m.outputTranscription[1]))
              ELSE log3
      turn == m.turnComplete
      log5 == IF turn THEN Append(log4, Effect(id, "turn", "", <<>>)) ELSE log4
      emitUser == turn /\ Truthy(Trim(in1))
      emitAi == turn /\ Truthy(Trim(out1))
      log6 == IF emitUser THEN Append(log5, Effect(id, "emit", "user", in1)) ELSE log5
      log7 == IF emitAi THEN Append(log6, Effect(id, "emit", "ai", out1)) ELSE log6
  IN /\ sources' = IF intr THEN {} ELSE srcs1
     /\ nextStartTime' = IF intr THEN 0 ELSE nst1
     /\ started' = IF intr THEN StopAll(srcs1, started1) ELSE started1
     /\ currentInputTranscription' = IF emitUser THEN <<>> ELSE in1
     /\ currentOutputTranscription' = IF emitAi THEN <<>> ELSE out1
     /\ emitted' = emitted
                   \o (IF emitUser THEN <<Item("user", in1)>> ELSE <<>>)
                   \o (IF emitAi THEN <<Item("ai", out1)>> ELSE <<>>)
     /\ transcriptions' = transcriptions
                   \o (IF emitUser THEN <<Item("user", in1)>> ELSE <<>>)
                   \o (IF emitAi THEN <<Item("ai", out1)>> ELSE <<>>)
     /\ log' = log7

\* callbacks.onmessage = handleMessage, called with message m.  A message
\* with audio (and an output context to play it on) moves the cursor up to
\* the output clock and suspends in `await decodeAudioData`; any other
\* message is handled to the end in the same turn of the event loop.
HandleMessage(m) ==
  /\ chan = "open"
  /\ nMsgs' = nMsgs + 1
  /\ IF m.audio > 0 /\ outputAudioContext # "null" /\ outputNode # "null"
     THEN /\ nextStartTime' = Max(nextStartTime, currentTime)
          /\ inflight' = inflight \cup
               {[id |-> nMsgs + 1, msg |-> m, read |-> currentTime,
                 lag |-> currentTime <= nextStartTime]}
          /\ log' = Append(log, Effect(nMsgs + 1, "cursor", "", <<>>))
          /\ UNCHANGED <<sources, started, textVars, transcriptions>>
     ELSE /\ AfterAudio(m, nMsgs + 1, sources, nextStartTime, started, log)
          /\ UNCHANGED inflight
  /\ UNCHANGED <<svcVars, platVars, chanVars, evVars, currentTime, dateNow,
                 callState, appError, faulty, endedFired, pcConnect, disc,
                 capVars>>

\* The ways the codec fails on a chunk: base64ToUint8Array throws on text
\* that is not base64, decodeAudioData fails on bytes of odd length.
CodecFaults == {"badBase64", "badPcm"}

\* The cursor after handleMessage has run into the fault: the base64
\* decoding comes before the cursor is moved up to the clock, the PCM
\* decoding after it.
CursorAtFault(fault) ==
  IF fault = "badBase64" THEN nextStartTime
  ELSE Max(nextStartTime, currentTime)

\* handleMessage called with a message m whose audio chunk the codec
\* fails on.  The error leaves the method (there is no try block in it):
\* the call ends at the failing statement and the returned promise rejects,
\* unobserved.
HandleMalformed(m, fault) ==
  /\ chan = "open"
  /\ m.audio > 0 /\ outputAudioContext # "null" /\ outputNode # "null"
  /\ nMsgs' = nMsgs + 1
  /\ nextStartTime' = CursorAtFault(fault)
  /\ log' = IF fault = "badBase64" THEN log
            ELSE Append(log, Effect(nMsgs + 1, "cursor", "", <<>>))
  /\ faulty' = Append(faulty, [id |-> nMsgs + 1, msg |-> m, fault |-> fault,
                               before |-> nextStartTime,
                               after |-> CursorAtFault(fault)])
  /\ UNCHANGED <<sources, started, textVars, inflight, svcVars, platVars,
                 chanVars, evVars, capVars, currentTime, dateNow, appVars,
                 endedFired, pcConnect, disc>>

\* decodeAudioData resolved for the suspended call h: the buffer source is
\* created, started at the cursor, the cursor advanced, the source added to
\* the active set, and the rest of the method runs.  With the output context
\* gone, createBufferSource is called on null and the call ends there.
DecodeResolved(h) ==
  /\ h \in inflight
  /\ inflight' = inflight \ {h}
  /\ IF outputAudioContext = "null"
     THEN UNCHANGED <<playVars, textVars, log, transcriptions>>
     ELSE AfterAudio(h.msg, h.id,
            sources \cup {h.id},
            AdvanceCursor(nextStartTime, h.msg.audio),
            Append(started, [msg |-> h.id, when |-> nextStartTime,
                             at |-> currentTime, dur |-> h.msg.audio,
                             stop |-> NoStop, read |-> h.read,
                             lag |-> h.lag]),
            Append(log, Effect(h.id, "start", "", <<>>)))
  /\ UNCHANGED <<nMsgs, svcVars, platVars, chanVars, evVars, currentTime,
                 dateNow, callState, appError, faulty, endedFired, pcConnect,
                 disc, capVars>>

\* A source's playback interval: start(when) with when in the past begins
\* at once.
PlayStart(s) == Max(s.when, s.at)
PlayEnd(s) == IF s.stop # NoStop THEN s.stop ELSE PlayStart(s) + s.dur

EndedKeeps(i) ==
  /\ i \in DOMAIN started
  /\ started[i].msg \in sources
  /\ started[i].stop = NoStop
  /\ PlayStart(started[i]) + started[i].dur <= currentTime
  /\ sources' = sources
  /\ endedFired' = endedFired \cup {started[i].msg}
  /\ UNCHANGED <<nextStartTime, started, textVars, msgVars, svcVars, platVars,
                 chanVars, evVars, currentTime, dateNow, appVars, faulty,
                 pcConnect, disc, capVars>>

\* The 'ended' listener of a source that played to its end.
Ended(i) ==
  /\ i \in DOMAIN started
  /\ started[i].msg \in sources
  /\ started[i].stop = NoStop
  /\ PlayStart(started[i]) + started[i].dur <= currentTime
  /\ sources' = sources \ {started[i].msg}
  /\ endedFired' = endedFired \cup {started[i].msg}
  /\ UNCHANGED <<nextStartTime, started, textVars, msgVars, svcVars, platVars,
                 chanVars, evVars, currentTime, dateNow, appVars, faulty,
                 pcConnect, disc, capVars>>

\* The 'ended' listener of a source that an interruption stopped: stop()
\* makes the source fire 'ended' too, after the set was cleared.
EndedAfterStop(i) ==
  /\ i \in DOMAIN started
  /\ started[i].stop # NoStop
  /\ started[i].msg \notin endedFired
  /\ sources' = sources \ {started[i].msg}
  /\ endedFired' = endedFired \cup {started[i].msg}
  /\ UNCHANGED <<nextStartTime, started, textVars, msgVars, svcVars, platVars,
                 chanVars, evVars, currentTime, dateNow, appVars, faulty,
                 pcConnect, disc, capVars>>

\* The output context's clock advances while the context runs.
Tick ==
  /\ outCtxState = "running"
  /\ currentTime < MaxClock
  /\ currentTime' = currentTime + 1
  /\ UNCHANGED <<svcVars, platVars, playVars, textVars, msgVars, chanVars,
                 evVars, dateNow, appVars, faulty, endedFired, pcConnect, disc,
                 capVars>>

\* The wall clock read by Date.now() moves on by a millisecond.
DateTick ==
  /\ dateNow < MaxDate
  /\ dateNow' = dateNow + 1
  /\ UNCHANGED <<svcVars, platVars, playVars, textVars, msgVars, chanVars,
                 evVars, capVars, currentTime, pcConnect, disc, faulty,
                 endedFired, appVars>>

\* ---------------------------------------------------------- specification
NextSession ==
  \/ Connect
  \/ \E o \in ConnectOutcomes : GumResolve(o)
  \/ GumReject
  \/ ChanOpen
  \/ \E o \in {"resolved", "rejected"} : SessionSettle(o)
  \/ ChanError
  \/ ChanClose
  \/ DisconnectCall
  \/ \E d \in 1..MaxDisconnects : DisconnectResume(d)
  \/ \E d \in 1..MaxDisconnects : DisconnectCloseRejected(d)
  \/ \E d \in 1..MaxDisconnects : DisconnectSessionSettled(d)

SpecSession == Init /\ [][NextSession]_vars

\* A session that opens and then plays what the channel delivers.
PlayMessages ==
  {m \in Messages : m.inputTranscription = <<>> /\ m.outputTranscription = <<>>
                     /\ ~m.turnComplete}

NextPlay ==
  \/ Connect
  \/ GumResolve("ok")
  \/ ChanOpen
  \/ \E m \in PlayMessages : nMsgs < MaxMsgs /\ HandleMessage(m)
  \/ \E h \in inflight : DecodeResolved(h)
  \/ \E i \in DOMAIN started : Ended(i)
  \/ Tick

SpecPlay == Init /\ [][NextPlay]_vars

\* A session that opens and then plays an uninterrupted run of chunks.
AudioMessages == {m \in PlayMessages : m.audio > 0 /\ ~m.interrupted}

NextAudio ==
  \/ Connect
  \/ GumResolve("ok")
  \/ ChanOpen
  \/ \E m \in AudioMessages : nMsgs < MaxMsgs /\ HandleMessage(m)
  \/ \E h \in inflight : DecodeResolved(h)
  \/ \E i \in DOMAIN started : Ended(i)
  \/ Tick

SpecAudio == Init /\ [][NextAudio]_vars

\* A session that opens and then receives transcription traffic.
TextMessages == {m \in Messages : m.audio = 0}

NextText ==
  \/ Connect
  \/ GumResolve("ok")
  \/ ChanOpen
  \/ \E m \in TextMessages : nMsgs < MaxTextMsgs /\ HandleMessage(m)

SpecText == Init /\ [][NextText]_vars

\* A session that opens and then receives messages of every shape: audio,
\* interruption, deltas and turn completion in any combination.
MixedMessages == {m \in Messages : m.audio <= 1}

NextMixed ==
  \/ Connect
  \/ GumResolve("ok")
  \/ ChanOpen
  \/ \E m \in MixedMessages : nMsgs < MaxTextMsgs /\ HandleMessage(m)
  \/ \E h \in inflight : DecodeResolved(h)

SpecMixed == Init /\ [][NextMixed]_vars

\* The whole life of a session with its capture stage running: every
\* lifecycle step, and frames captured whenever the processor fires.
NextCapture ==
  \/ NextSession
  \/ frames < MaxFrames /\ CaptureFrame

SpecCapture == Init /\ [][NextCapture]_vars

\* A message that touches the cursor, the active set and both buffers.
MicMessages ==
  {m \in Messages : /\ m.audio = 1 /\ ~m.interrupted /\ ~m.turnComplete
                     /\ m.inputTranscription = <<<<"a">>>>
                     /\ m.outputTranscription = <<<<"a">>>>}

\* A session that opens, captures and plays, and is muted and unmuted
\* through the service's method, then disconnected.
NextMic ==
  \/ Connect
  \/ GumResolve("ok")
  \/ ChanOpen
  \/ SessionSettle("resolved")
  \/ \E m \in MicMessages : nMsgs < MaxTextMsgs /\ HandleMessage(m)
  \/ \E h \in inflight : DecodeResolved(h)
  \/ frames < MaxFrames /\ CaptureFrame
  \/ \E b \in BOOLEAN : MuteMicrophone(b)
  \/ Len(disc) < 1 /\ DisconnectCall
  \/ DisconnectResume(1)
  \/ DisconnectSessionSettled(1)

SpecMic == Init /\ [][NextMic]_vars

\* Chunks, interruptions, and a transcript that completes a turn.
CursorMessages ==
  {m \in Messages :
     /\ m.audio <= 1 /\ m.inputTranscription = <<>>
     /\ (m.outputTranscription # <<>>) = m.turnComplete
     /\ m.turnComplete => (m.audio = 0 /\ ~m.interrupted)
     /\ m.audio = 0 => (m.interrupted \/ m.turnComplete)}

\* Every kind of operation on one session whose promise is still pending:
\* messages played and interrupted, transcripts, capture, mute and
\* disconnect.
NextCursor ==
  \/ Connect
  \/ GumResolve("ok")
  \/ ChanOpen
  \/ \E m \in CursorMessages : nMsgs < MaxTextMsgs /\ HandleMessage(m)
  \/ \E h \in inflight : DecodeResolved(h)
  \/ Tick
  \/ frames < MaxFrames /\ CaptureFrame
  \/ MuteMicrophone(TRUE)
  \/ Len(disc) < 1 /\ DisconnectCall
  \/ DisconnectResume(1)

SpecCursor == Init /\ [][NextCursor]_vars

\* A session that opens and receives messages of every shape, some with an
\* audio chunk the codec fails on.
NextCodec ==
  \/ Connect
  \/ GumResolve("ok")
  \/ ChanOpen
  \/ \E m \in MixedMessages : nMsgs < MaxTextMsgs /\ HandleMessage(m)
  \/ \E m \in MixedMessages, fault \in CodecFaults :
        nMsgs < MaxTextMsgs /\ HandleMalformed(m, fault)
  \/ \E h \in inflight : DecodeResolved(h)
  \/ Tick

SpecCodec == Init /\ [][NextCodec]_vars

\* A session that plays, is interrupted, and hears every source end.
NextActive ==
  \/ Connect
  \/ GumResolve("ok")
  \/ ChanOpen
  \/ \E m \in PlayMessages : nMsgs < MaxTextMsgs /\ HandleMessage(m)
  \/ \E h \in inflight : DecodeResolved(h)
  \/ \E i \in DOMAIN started : Ended(i)
  \/ \E i \in DOMAIN started : EndedAfterStop(i)
  \/ Tick

SpecActive == Init /\ [][NextActive]_vars

\* A session that receives transcription traffic while the wall clock
\* runs: messages may arrive within one millisecond or apart.
NextIds ==
  \/ NextText
  \/ DateTick

SpecIds == Init /\ [][NextIds]_vars

\* Messages that combine a chunk, an interruption, deltas and a turn
\* completion in every way.
OrderMessages ==
  {m \in Messages : /\ m.audio <= 1
                     /\ m.inputTranscription \in {<<>>, <<<<"a">>>>}
                     /\ m.outputTranscription \in {<<>>, <<<<"a">>>>}}

NextOrder ==
  \/ Connect
  \/ GumResolve("ok")
  \/ ChanOpen
  \/ \E m \in OrderMessages : nMsgs < MaxTextMsgs /\ HandleMessage(m)
  \/ \E h \in inflight : DecodeResolved(h)

SpecOrder == Init /\ [][NextOrder]_vars

\* A session that opens, captures, is disconnected once, and goes on
\* receiving messages for as long as the channel is open.
NextTorn ==
  \/ Connect
  \/ GumResolve("ok")
  \/ ChanOpen
  \/ SessionSettle("resolved")
  \/ frames < MaxFrames /\ CaptureFrame
  \/ Len(disc) < 1 /\ DisconnectCall
  \/ DisconnectResume(1)
  \/ DisconnectSessionSettled(1)
  \/ \E m \in OrderMessages : nMsgs < MaxTextMsgs /\ HandleMessage(m)
  \/ \E h \in inflight : DecodeResolved(h)

SpecTorn == Init /\ [][NextTorn]_vars

\* One call of the App: startCall, the session's life with transcription
\* traffic, and endCall.
NextCall ==
  \/ Connect
  \/ \E o \in ConnectOutcomes : GumResolve(o)
  \/ GumReject
  \/ ChanOpen
  \/ \E o \in {"resolved", "rejected"} : SessionSettle(o)
  \/ ChanError
  \/ ChanClose
  \/ EndCall
  \/ DisconnectResume(1)
  \/ DisconnectSessionSettled(1)
  \/ \E m \in TextMessages : nMsgs < MaxTextMsgs /\ HandleMessage(m)

SpecCall == Init /\ [][NextCall]_vars

\* The App's use of a session: the user toggles mute in the lobby and in the
\* call, startCall connects, endCall disconnects.
NextApp ==
  \/ Connect
  \/ GumResolve("ok")
  \/ ChanOpen
  \/ SessionSettle("resolved")
  \/ frames < MaxFrames /\ CaptureFrame
  \/ ToggleMute
  \/ Len(disc) < 1 /\ DisconnectCall
  \/ DisconnectResume(1)
  \/ DisconnectSessionSettled(1)

SpecApp == Init /\ [][NextApp]_vars

\* ------------------------------------------------------------ properties
Calls == DOMAIN disc

\* C1: a session delivers at most one terminal event to its collaborator:
\* one onError or one onClose, never both and never two of a kind; a channel
\* error is never followed by an onClose.
TerminalEventExclusive ==
  /\ nError + nClose <= 1
  /\ chanErrored => nClose = 0

\* C9: two disconnect() calls on one session (the second may start while
\* the first is suspended in a close()) raise no error, and between them
\* release the processor, the input source, both contexts and the tracks
\* once each.
DisconnectTwiceSafe ==
  (Len(disc) = 2 /\ sessionPromise # "rejected") =>
     /\ \A d \in Calls : disc[d].pc # "raised"
     /\ \A r \in Resources : released[r] <= 1

\* C10: a single disconnect() call, made in any state of the session
\* (before connect, while open, after an error or a rejected session
\* promise), never ends by raising.
DisconnectNeverRaises ==
  Len(disc) = 1 => disc[1].pc # "raised"

\* Positions of the effect log, and the effects of one kind.
Pos == DOMAIN log
Chunks == DOMAIN started
Interrupts == {t \in Pos : log[t].kind = "interrupt"}
Starts == {t \in Pos : log[t].kind = "start"}

\* C2: inbound messages are handled one at a time in arrival order: every
\* effect of an earlier message precedes every effect of a later one.
EffectsInArrivalOrder ==
  \A t, u \in Pos : t < u => log[t].msg <= log[u].msg

\* C3: after an interruption has been handled, no chunk whose message
\* arrived before the interrupting message is started.
NoStartAfterInterrupt ==
  \A t \in Interrupts : \A u \in Starts : t < u => log[u].msg > log[t].msg

\* C4: right after an interruption the active set is empty and the cursor
\* is 0, and a chunk started after an interruption is scheduled no earlier
\* than the clock reading its handler took, never at a stale cursor.
LastMsgInterrupted ==
  /\ log # <<>>
  /\ \E t \in Interrupts : log[t].msg = log[Len(log)].msg

StartedAfterInterrupt(i) ==
  \E t \in Interrupts : \E u \in Starts :
     t < u /\ log[u].msg = started[i].msg

InterruptClearsState ==
  /\ LastMsgInterrupted => (sources = {} /\ nextStartTime = 0)
  /\ \A i \in Chunks :
       StartedAfterInterrupt(i) => started[i].when >= started[i].read

\* C5: chunks are started in the order their messages arrived, and the
\* playback intervals of two chunks never overlap.
Overlap(a, b) ==
  /\ PlayStart(a) < PlayEnd(a)
  /\ PlayStart(b) < PlayEnd(b)
  /\ Max(PlayStart(a), PlayStart(b)) <
       (IF PlayEnd(a) <= PlayEnd(b) THEN PlayEnd(a) ELSE PlayEnd(b))

PlaybackOrdered ==
  \A i, j \in Chunks : i < j =>
     /\ started[i].msg < started[j].msg
     /\ ~Overlap(started[i], started[j])

\* C6: without interruption and with the clock behind the cursor, the k-th
\* chunk enqueued is scheduled at the first chunk's start plus the durations
\* of the k-1 chunks before it, and the cursor is the last start plus the
\* last duration.
RECURSIVE DurSum(_)
DurSum(k) == IF k = 0 THEN 0 ELSE DurSum(k - 1) + started[k].dur

ClockLags == \A k \in Chunks : k >= 2 => started[k].lag

Gapless ==
  (Interrupts = {} /\ ClockLags /\ \A h \in inflight : h.lag) =>
     /\ \A k \in Chunks : started[k].when = started[1].when + DurSum(k - 1)
     /\ started # <<>> =>
          nextStartTime = started[Len(started)].when + started[Len(started)].dur

GaplessWitness ==
  /\ Interrupts = {} /\ ClockLags
  /\ Len(started) = 3
  /\ started[1].dur # started[2].dur
  /\ started[3].when = started[1].dur + started[2].dur + started[1].when
  /\ started[1].when > 0
  /\ \A k \in Chunks : started[k].msg = k

\* The transcript history read off the effect log.
Senders == {"user", "ai"}
Turns == {t \in Pos : log[t].kind = "turn"}
Emits == {t \in Pos : log[t].kind = "emit"}
EmitEntries == SelectSeq(log, LAMBDA e : e.kind = "emit")

\* The effect e empties the pending text of sender s.
IsReset(e, s) ==
  \/ e.kind = "emit" /\ e.sender = s
  \/ e.kind = "interrupt" /\ s = "ai"

\* The deltas appended for sender s and not yet emptied, just before
\* position t of the log.
RECURSIVE PendingUpTo(_, _)
PendingUpTo(s, t) ==
  IF t <= 1 THEN <<>>
  ELSE LET e == log[t - 1]
       IN IF IsReset(e, s) THEN <<>>
          ELSE IF e.kind = "delta" /\ e.sender = s
               THEN PendingUpTo(s, t - 1) \o e.text
               ELSE PendingUpTo(s, t - 1)

\* C7: at a turn-complete, each sender whose pending text is non-empty
\* after trimming emits exactly one final item whose text is the in-order
\* concatenation of the deltas appended for it, and its buffer is emptied;
\* a sender whose pending text is empty or blank emits nothing.
TurnCompleteEmits ==
  /\ \A t \in Turns : \A s \in Senders :
       LET p == PendingUpTo(s, t)
           mine == {u \in Emits : u > t /\ log[u].msg = log[t].msg
                                        /\ log[u].sender = s}
       IN IF Trim(p) # <<>>
          THEN Cardinality(mine) = 1 /\ \A u \in mine : log[u].text = p
          ELSE mine = {}
  /\ Len(emitted) = Len(EmitEntries)
  /\ \A k \in DOMAIN emitted :
       /\ emitted[k].sender = EmitEntries[k].sender
       /\ emitted[k].text = EmitEntries[k].text
       /\ emitted[k].isFinal
  /\ currentInputTranscription = PendingUpTo("user", Len(log) + 1)
  /\ currentOutputTranscription = PendingUpTo("ai", Len(log) + 1)

TurnCompleteWitness ==
  /\ \E t \in Turns :
       /\ PendingUpTo("user", t) = <<"a", " ">>
       /\ PendingUpTo("ai", t) = <<" ">>
  /\ Len(emitted) = 1
  /\ emitted[1].sender = "user" /\ emitted[1].text = <<"a", " ">>
  /\ currentInputTranscription = <<>>

\* The deltas of sender s logged strictly between positions r and u.
RECURSIVE DeltasBetween(_, _, _)
DeltasBetween(s, r, u) ==
  IF u - 1 <= r THEN <<>>
  ELSE DeltasBetween(s, r, u - 1) \o
         (IF log[u - 1].kind = "delta" /\ log[u - 1].sender = s
          THEN log[u - 1].text ELSE <<>>)

LastBefore(S, u) ==
  LET B == {t \in S : t < u}
  IN IF B = {} THEN 0 ELSE CHOOSE t \in B : \A v \in B : v <= t

EmitsOf(s) == {t \in Emits : log[t].sender = s}

\* The step handled a message whose last effect was an interruption.
InterruptStep ==
  /\ Len(log') > Len(log)
  /\ log'[Len(log')].kind = "interrupt"

\* In the order the effects are applied: an interruption empties the ai
\* buffer, emits nothing and leaves the user buffer as it was; an ai item
\* holds the deltas applied after the last interruption, a user item holds
\* every delta applied since the last user item.
InterruptDiscardsAiOnlyStep ==
  InterruptStep =>
     /\ currentOutputTranscription' = <<>>
     /\ currentInputTranscription' = currentInputTranscription
     /\ emitted' = emitted

ItemsAfterInterrupt ==
  /\ \A u \in EmitsOf("ai") :
       log[u].text =
         DeltasBetween("ai", LastBefore(Interrupts \cup EmitsOf("ai"), u), u)
  /\ \A u \in EmitsOf("user") :
       log[u].text = DeltasBetween("user", LastBefore(EmitsOf("user"), u), u)

InterruptDiscardsAiOnly ==
  []ItemsAfterInterrupt /\ [][InterruptDiscardsAiOnlyStep]_vars

InterruptDiscardsWitness ==
  /\ \E t \in Interrupts :
       /\ \E d \in Pos : d < t /\ log[d].kind = "delta" /\ log[d].sender = "ai"
                               /\ log[d].text = <<"a">>
       /\ \E d \in Pos : d < t /\ log[d].kind = "delta" /\ log[d].sender = "user"
       /\ \E u \in Turns : u > t
  /\ Len(emitted) = 1
  /\ emitted[1].sender = "user" /\ emitted[1].text = <<"a">>
  /\ currentOutputTranscription = <<>>

\* The ai deltas that make up the ai item emitted at position u.
AiDeltasOf(u) ==
  {d \in Pos : /\ log[d].kind = "delta" /\ log[d].sender = "ai"
               /\ LastBefore(Interrupts \cup EmitsOf("ai"), u) < d
               /\ d < u}

\* C8: an interruption discards the ai partials only: no ai item contains a
\* delta whose message arrived before the message of an interruption handled
\* ahead of that item, while the user's pending deltas survive it.
AiPartialsNeverResurface ==
  \A u \in EmitsOf("ai") : \A t \in Interrupts : t < u =>
     \A d \in AiDeltasOf(u) : log[d].msg >= log[t].msg

\* ------------------------------------------- teardown, errors and capture
\* C11: when disconnect() was called while connect() was waiting for the
\* microphone and both calls have finished, the session holds no stream, no
\* live track, no running audio context and no capture processor.
DisconnectDuringConnectReleases ==
  \A d \in Calls :
    (disc[d].at = "gum" /\ disc[d].pc = "done" /\ pcConnect = "done") =>
       /\ stream = "null" /\ trackState # "live"
       /\ inCtxState # "running" /\ outCtxState # "running"
       /\ processor = "null"

\* C12: after the only disconnect() of a session, called with the channel
\* open, has completed, the capture processor is gone, the tracks are
\* stopped, both audio contexts are closed and the channel is closed.
FullTeardown ==
  (Len(disc) = 1 /\ disc[1].chanAt = "open" /\ disc[1].pc = "done") =>
     /\ processor = "null" /\ inputSource = "null"
     /\ trackState = "stopped"
     /\ inCtxState = "closed" /\ outCtxState = "closed"
     /\ chan = "closed"

\* C13: once a disconnect() called on a session that had begun to connect
\* has returned, no step captures a frame (no level callback) and no step
\* sends a frame on the channel.
NoCaptureAfterDisconnect ==
  [][(\E d \in Calls : disc[d].at # "idle" /\ disc[d].pc = "done") =>
       (frames' = frames /\ capLog' = capLog /\ sent' = sent)]_vars

\* C14: after the channel's error callback has fired, no step captures or
\* transmits a frame, the tracks are no longer live, the stream is released
\* and the channel is not opened again.
ErrorTearsDown ==
  [][chanErrored =>
       /\ frames' = frames /\ sent' = sent
       /\ trackState' # "live" /\ stream' = "null"
       /\ chan' # "open" \/ chan = "open"]_vars

\* C16: when connect() has failed at an acquisition step (the microphone
\* request, an audio context constructor, or the opening of the channel) and
\* nothing else was called, exactly one onError was delivered and the
\* session holds no stream, no audio context and no channel.
ConnectFailed ==
  /\ pcConnect = "done" /\ disc = <<>>
  /\ \/ sessionPromise = "null"
     \/ sessionPromise = "rejected" /\ ~chanOpened

FailedConnectRetainsNothing ==
  ConnectFailed =>
     /\ nError = 1 /\ nClose = 0
     /\ stream = "null" /\ trackState # "live"
     /\ inputAudioContext = "null" /\ outputAudioContext = "null"
     /\ chan = "none"

\* C17: while the user's microphone is muted (App.isMuted, set by the last
\* toggle, in the lobby or in the call), the live tracks of the stream the
\* session captures from are disabled, and every frame captured from live
\* tracks was captured with them disabled.
MuteSilencesSource ==
  isMuted => /\ (stream # "null" /\ trackState = "live") => ~trackEnabled
             /\ \A i \in DOMAIN capLog : capLog[i].live => capLog[i].muted

\* C18: a muteMicrophone call that changes the tracks' enabled flag changes
\* nothing else: the cursor, the active set, both transcript buffers, the
\* channel, the processor and every other field keep their values, and the
\* capture stage fires after the call exactly when it fired before it.
MuteHasNoProtocolEffect ==
  [][trackEnabled' # trackEnabled =>
       /\ UNCHANGED <<nextStartTime, sources, currentInputTranscription,
                      currentOutputTranscription, chanVars, svcVars,
                      inflight, queued, sent, frames>>
       /\ Capturing' = Capturing]_vars

\* A frame was metered and handed off while the tracks were disabled, in a
\* session whose cursor, active set and buffers are in use.
MuteWitness ==
  /\ \E i \in DOMAIN capLog : capLog[i].muted /\ capLog[i].kind = "handoff"
  /\ nextStartTime > 0 /\ sources # {}
  /\ currentInputTranscription # <<>>

\* The frames sent followed by the frames still waiting on the session
\* promise: every hand-off that has not been dropped.
HandedOff == sent \o queued

\* C19: the capture log holds, for each captured frame in turn, one level
\* entry followed by one hand-off entry of the same frame (so no callback
\* of another frame runs in between), and a frame is queued or sent once.
PerFrameContract ==
  /\ Len(capLog) = 2 * frames
  /\ \A f \in 1..frames :
       /\ capLog[2 * f - 1].frame = f /\ capLog[2 * f - 1].kind = "level"
       /\ capLog[2 * f].frame = f /\ capLog[2 * f].kind = "handoff"
  /\ sessionPromise \in {"pending", "resolved"} =>
       /\ Len(HandedOff) = frames
       /\ \A f \in 1..frames : HandedOff[f] = f

\* Two frames were captured and sent, one from disabled tracks and one
\* from enabled ones.
PerFrameWitness ==
  /\ frames >= 2 /\ Len(sent) >= 2
  /\ \E i, j \in DOMAIN capLog : capLog[i].muted /\ ~capLog[j].muted

\* ---------------------------------------------------------------- cursor
\* The effects logged by the step being taken.
NewEffects == {log'[i] : i \in (Len(log) + 1)..Len(log')}

\* C20: a step that changes nextStartTime is a step of handleMessage; a
\* step that lowers it handles an interruption and leaves it at zero.
CursorMonotone ==
  [][/\ nextStartTime' # nextStartTime => NewEffects # {}
     /\ nextStartTime' < nextStartTime =>
          /\ nextStartTime' = 0
          /\ \E e \in NewEffects : e.kind = "interrupt"]_vars

\* The cursor went up by a chunk, was reset by an interruption and went up
\* again, in a session that also captured, was muted and was disconnected.
CursorWitness ==
  /\ nextStartTime > 0
  /\ \E i, j, k \in DOMAIN log :
       /\ i < j /\ j < k
       /\ log[i].kind = "start" /\ log[j].kind = "interrupt"
       /\ log[k].kind = "start"
  /\ frames > 0 /\ ~trackEnabled /\ disc # <<>>

\* ----------------------------------------------------------------- codec
\* The effects of message id in the log.
EffectsOf(id) == {log[i] : i \in {j \in DOMAIN log : log[j].msg = id}}

\* C15: for every message whose audio chunk failed to decode, the failed
\* chunk left the cursor where it was and started no source, no terminal
\* event was delivered, and the other effects the message carries
\* (interruption, transcript deltas, turn completion) were applied.
CodecErrorsIsolated ==
  \A i \in DOMAIN faulty :
    LET f == faulty[i] IN
      /\ f.after = f.before
      /\ \A e \in EffectsOf(f.id) : e.kind # "start"
      /\ nError = 0 /\ nClose = 0
      /\ f.msg.interrupted =>
           \E e \in EffectsOf(f.id) : e.kind = "interrupt"
      /\ f.msg.inputTranscription # <<>> =>
           \E e \in EffectsOf(f.id) : e.kind = "delta" /\ e.sender = "user"
      /\ f.msg.outputTranscription # <<>> =>
           \E e \in EffectsOf(f.id) : e.kind = "delta" /\ e.sender = "ai"
      /\ f.msg.turnComplete =>
           \E e \in EffectsOf(f.id) : e.kind = "turn"

\* ------------------------------------------------------------ active set
\* The sources that were started and have neither run their 'ended'
\* listener nor been stopped by an interruption.
Owned ==
  {started[i].msg : i \in {j \in DOMAIN started :
      started[j].stop = NoStop /\ started[j].msg \notin endedFired}}

\* C21: the active set is exactly the set of sources that were started and
\* have neither ended nor been stopped by an interruption; a step in which
\* a stopped source fires 'ended' leaves the set as it was.
ActiveSetOwnership ==
  /\ sources = Owned
  /\ \A i \in DOMAIN started :
       (started[i].stop # NoStop) => started[i].msg \notin sources

\* A source was stopped by an interruption and has fired 'ended' since,
\* while another source is in the set.
ActiveSetWitness ==
  /\ \E i \in DOMAIN started :
       started[i].stop # NoStop /\ started[i].msg \in endedFired
  /\ sources # {}

\* ------------------------------------------------------------------- ids
\* C22: no two items emitted in a session carry the same id.
FreshIds ==
  \A i, j \in DOMAIN emitted : i # j => emitted[i].id # emitted[j].id

\* ------------------------------------------------------- capture and open
\* C23: nothing is sent before the channel-open callback has fired; when
\* disconnect() was called on the session before the channel opened,
\* nothing is ever sent; and the frames sent are in capture order, each at
\* most once.
CaptureOnlyAfterOpen ==
  /\ sent # <<>> => chanOpened
  /\ (\E d \in Calls : disc[d].at # "idle" /\ disc[d].chanAt # "open"
                          /\ disc[d].chanAt # "closed") => sent = <<>>
  /\ \A i, j \in DOMAIN sent : i < j => sent[i] < sent[j]

\* --------------------------------------------------------- effect order
\* The place of an effect in the order handleMessage applies them.
Rank(e) ==
  CASE e.kind = "cursor" -> 1
    [] e.kind = "start" -> 2
    [] e.kind = "interrupt" -> 3
    [] e.kind = "delta" /\ e.sender = "user" -> 4
    [] e.kind = "delta" /\ e.sender = "ai" -> 5
    [] e.kind = "turn" -> 6
    [] e.kind = "emit" /\ e.sender = "user" -> 7
    [] OTHER -> 8

Has(E, kind, sender) == \E e \in E : e.kind = kind /\ e.sender = sender

IsSuffix(t, u) == Len(t) <= Len(u) /\ SubSeq(u, Len(u) - Len(t) + 1, Len(u)) = t

\* The effects of one message are logged in the order chunk, interruption,
\* user delta, ai delta, turn completion, user item, ai item.
OrderWithinMessage ==
  \A i, j \in DOMAIN log :
    (i < j /\ log[i].msg = log[j].msg) => Rank(log[i]) < Rank(log[j])

\* What the order means for the step that applies a message's effects.
OrderConsequences ==
  LET E == NewEffects IN
    /\ (Has(E, "interrupt", "") /\ Has(E, "delta", "ai") /\ ~Has(E, "turn", ""))
         => \E d \in E : /\ d.kind = "delta" /\ d.sender = "ai"
                          /\ currentOutputTranscription' = d.text
    /\ \A d \in E : (d.kind = "delta" /\ Has(E, "turn", "")) =>
         /\ Truthy(Trim(d.text)) => Has(E, "emit", d.sender)
         /\ \A e \in E : (e.kind = "emit" /\ e.sender = d.sender)
                            => IsSuffix(d.text, e.text)
    /\ (Has(E, "start", "") /\ Has(E, "interrupt", "")) => sources' = {}
    /\ (Has(E, "emit", "user") /\ Has(E, "emit", "ai")) =>
         /\ Len(emitted') = Len(emitted) + 2
         /\ emitted'[Len(emitted') - 1].sender = "user"
         /\ emitted'[Len(emitted')].sender = "ai"

\* C24: the effects of one message are applied in the order audio enqueue,
\* interruption, user delta, ai delta, turn completion: an interruption
\* with an ai delta leaves that delta in the ai buffer, deltas with a turn
\* completion are part of the items emitted for it, a chunk with an
\* interruption leaves the active set empty, and the user item comes
\* before the ai item.
EffectOrder ==
  []OrderWithinMessage /\ [][OrderConsequences]_vars

\* One message carried a chunk, an interruption, both deltas and a turn
\* completion, and all of them were applied, while another message's chunk
\* was being decoded.
EffectOrderWitness ==
  \E id \in 1..nMsgs :
    /\ {Rank(e) : e \in EffectsOf(id)} = 1..8
    /\ \E i, j, k \in DOMAIN log :
         /\ i < j /\ j < k /\ log[i].msg = id /\ log[k].msg = id
         /\ log[j].msg # id

\* ------------------------------------------------------- turn isolation
\* C25: right after a turn completion was handled (the log ends with the
\* turn completion or with the items emitted for it), both pending buffers
\* are empty.
BuffersEmptyAfterTurn ==
  (log # <<>> /\ log[Len(log)].kind \in {"turn", "emit"}) =>
     /\ currentInputTranscription = <<>>
     /\ currentOutputTranscription = <<>>

\* ------------------------------------------------------ after disconnect
\* A disconnect() that was called after connect() had finished has
\* completed.
TornDown == \E d \in Calls : disc[d].at = "done" /\ disc[d].pc = "done"

\* C26: once such a disconnect() has completed, no step delivers an
\* onTranscription item, no step captures a frame (onAudioData), and no step
\* starts a source.
NoEventsAfterDisconnect ==
  [][TornDown =>
       (emitted' = emitted /\ frames' = frames /\ started' = started)]_vars

\* C27: whenever a handleMessage call that was suspended in
\* decodeAudioData resumes, the output context and the output node are
\* there and the context is not closed.
ResumeOnLiveOutput ==
  [][\A h \in inflight \ inflight' :
       /\ outputAudioContext # "null" /\ outputNode # "null"
       /\ outCtxState = "running"]_vars

\* ------------------------------------------------------------ call state
\* connect() reported an error before it returned, and the call was not
\* ended since.
ConnectReportedError ==
  pcConnect = "done" /\ sessionPromise = "null" /\ nError > 0 /\ disc = <<>>

\* C28: when connect() reported an error before it returned, the call
\* state is LOBBY with the error set (in particular it is not ACTIVE).
FailedStartReturnsToLobby ==
  ConnectReportedError => (callState = "LOBBY" /\ appError)

\* C29: once endCall has run (it is what calls disconnect()), the call
\* state is LOBBY and the transcript list is empty, whatever the ended
\* session delivers afterwards.
EndCallIsFinal ==
  disc # <<>> => (callState = "LOBBY" /\ transcriptions = <<>>)

====
